---- MODULE Spec2Model ----
(***************************************************************************)
(* A model of github_archive/archive.py: the GithubArchive run, its        *)
(* per-class enumeration, the thread-per-target passes gated by a          *)
(* BoundedSemaphore, and the archive_repo / archive_gist thread bodies.    *)
(***************************************************************************)
EXTENDS Integers, Sequences, FiniteSets, TLC

\* ------------------------------------------------------------------ bounds
MaxUsers == 2       \* longest users list drawn for a run
MaxWorkers == 2     \* largest value of self.threads drawn for a run

\* ------------------------------------------------------- program constants
CLONE_OPERATION == "clone"
PULL_OPERATION == "pull"
ORG_CONTEXT == "orgs"
PERSONAL_CONTEXT == "personal"
USER_CONTEXT == "user"

\* --------------------------------------------------------- the forge side
\* The login the forge reports for the token's account (mixed case, as the
\* forge stores it).
AuthLogin == "Alice"

\* str.lower() on the logins of the model.
Lower(s) == IF s = "Alice" THEN "alice" ELSE s

\* str.strip() on the entries of the configured lists.
Strip(s) == IF s = " alice" THEN "alice" ELSE s

Repo(o, n) == [owner |-> o, name |-> n, kind |-> "repo"]
Gist(o, n) == [owner |-> o, name |-> n, kind |-> "gist"]

\* authenticated_user.get_repos(): the account's own repos and the org repos
\* it has access to.
ForgeSelfRepos == << Repo("Alice", "r1"), Repo("orgx", "r2") >>

\* github_instance.get_user(name).get_repos()
ForgeUserRepos(name) ==
    IF name = "alice" THEN << Repo("Alice", "r1") >>
    ELSE IF name = "bob" THEN << Repo("bob", "r1") >>
    ELSE << >>

\* github_instance.get_organization(name).get_repos()
ForgeOrgRepos(name) == IF name = "orgx" THEN << Repo("orgx", "r2") >> ELSE << >>

\* github_instance.get_user(name).get_gists()
ForgeGists(name) == IF name = "alice" THEN << Gist("Alice", "g1") >> ELSE << >>

\* ------------------------------------------------------------ input space
UserEntries == {"alice", "bob"}

RECURSIVE SeqsUpTo(_, _)
SeqsUpTo(S, n) ==
    IF n = 0 THEN { << >> }
    ELSE LET shorter == SeqsUpTo(S, n - 1)
         IN  shorter \cup { Append(s, x) : s \in { t \in shorter : Len(t) = n - 1 }, x \in S }

\* Lists as `--users "bob, alice"` gives them: split(',') keeps the blank.
PaddedLists == { << " alice" >>, << "bob", " alice" >> }

UsersLists == SeqsUpTo(UserEntries, MaxUsers) \cup PaddedLists
OrgsLists == { << >>, << "orgx" >> }
GistsLists == { << >>, << "alice" >> }

\* os.path.join(self.location, 'repos', owner, name) / (.., 'gists', gist.id)
repo_path(d) == << "repos", Lower(d.owner), d.name >>
gist_path(d) == << "gists", d.name >>
PathOf(d) == IF d.kind = "gist" THEN gist_path(d) ELSE repo_path(d)

AllPaths == { << "repos", "alice", "r1" >>, << "repos", "bob", "r1" >>,
              << "repos", "orgx", "r2" >>, << "gists", "g1" >> }

\* The local paths a run may find under a location that is already there.
InitialFs == { { << "repos", "alice", "r1" >> }, AllPaths }

\* ------------------------------------------------------------------ state
VARIABLES
    cfg,        \* the constructor's parameters, as given (never changes)
    users,      \* self.users (run() removes the authenticated login from it)
    pc,         \* the main thread's position in run()
    stage,      \* the asset class run() is handling: 1 personal, 2 users, 3 orgs, 4 gists
    enumIdx,    \* loop index of get_all_user_repos / get_all_org_repos / get_all_gists
    repos,      \* personal_repos / user_repos / org_repos / gists of the current class
    operation,  \* the operation argument of the current iterate_* call
    next,       \* loop index of the for loop of iterate_*
    tasks,      \* thread_list: one record per started thread
    permits,    \* the value of thread_limiter
    fs,         \* the local paths that exist
    dirsMade,   \* initialize_project created <location>/repos and /gists
    forgeCalls, \* the Forge Client calls made so far, in order
    viewed,     \* the descriptors view_repos / view_gists logged for the current class
    passLog     \* the iterate_* calls made so far: class, operation, threads started

vars == << cfg, users, pc, stage, enumIdx, repos, operation, next, tasks,
           permits, fs, dirsMade, forgeCalls, viewed, passLog >>

mainVars == << users, pc, stage, enumIdx, repos, operation, next, dirsMade, forgeCalls,
               viewed, passLog >>

\* The context argument run() gives iterate_repos_to_archive for the class
\* (iterate_gists_to_archive takes none).
context ==
    CASE stage = 1 -> PERSONAL_CONTEXT
      [] stage = 2 -> USER_CONTEXT
      [] stage = 3 -> ORG_CONTEXT
      [] OTHER -> "none"

authenticated_username == Lower(AuthLogin)

\* ------------------------------------------------------------------- Init
\* The state after __init__: the lists are split, and with a token the
\* authenticated user has been looked up.
Init ==
    /\ cfg \in [ view : BOOLEAN, clone : BOOLEAN, pull : BOOLEAN,
                 users : UsersLists, orgs : OrgsLists, gists : GistsLists,
                 token : BOOLEAN, threads : 1..MaxWorkers, locExists : BOOLEAN ]
    /\ users = cfg.users
    /\ pc = "init"
    /\ stage = 1
    /\ enumIdx = 1
    /\ repos = << >>
    /\ operation = "none"
    /\ next = 1
    /\ tasks = << >>
    /\ permits = 0
    /\ fs \in (IF cfg.locExists THEN InitialFs ELSE { {} })
    /\ dirsMade = FALSE
    /\ forgeCalls = (IF cfg.token THEN << << "auth", AuthLogin >> >> ELSE << >>)
    /\ viewed = << >>
    /\ passLog = << >>

\* ------------------------------------------------------------ main thread
HasTargets == users # << >> \/ cfg.orgs # << >> \/ cfg.gists # << >>
HasOperation == cfg.view \/ cfg.clone \/ cfg.pull

\* The first test alone: lists without an operation.
ValidationFails_oneway == HasTargets /\ ~HasOperation

\* The if / elif of initialize_project: which configurations raise ValueError.
ValidationFails ==
    IF HasTargets /\ ~HasOperation THEN TRUE
    ELSE IF ~HasTargets /\ HasOperation THEN TRUE
    ELSE FALSE

\* A validation that logs the message and goes on instead of raising.
initialize_project_noraise ==
    /\ pc = "init"
    /\ dirsMade' = ~cfg.locExists
    /\ pc' = "guard"
    /\ UNCHANGED << cfg, users, stage, enumIdx, repos, operation, next, tasks,
                    permits, fs, forgeCalls, viewed, passLog >>

\* os.makedirs when the location is missing, then the two ValueError tests.
initialize_project ==
    /\ pc = "init"
    /\ dirsMade' = ~cfg.locExists
    /\ pc' = IF ValidationFails THEN "config_error" ELSE "guard"
    /\ UNCHANGED << cfg, users, stage, enumIdx, repos, operation, next, tasks,
                    permits, fs, forgeCalls, viewed, passLog >>

\* `self.authenticated_user_in_users` is read without being called: a bound
\* method, which is always true.
authenticated_user_in_users == TRUE

\* The `if` that opens each asset class of run().
ClassGuard(s) ==
    CASE s = 1 -> cfg.token /\ authenticated_user_in_users /\ users # << >>
      [] s = 2 -> users # << >> /\ Len(users) > 0
      [] s = 3 -> cfg.orgs # << >>
      [] s = 4 -> cfg.gists # << >>

run_guard ==
    /\ pc = "guard"
    /\ IF ClassGuard(stage)
       THEN /\ pc' = "enum"
            /\ UNCHANGED stage
       ELSE IF stage < 4
       THEN /\ pc' = "guard"
            /\ stage' = stage + 1
       ELSE /\ pc' = "finished"
            /\ UNCHANGED stage
    /\ enumIdx' = 1
    /\ repos' = << >>
    /\ viewed' = << >>
    /\ UNCHANGED << cfg, users, operation, next, tasks, permits, fs, dirsMade,
                    forgeCalls, passLog >>

get_personal_repos ==
    /\ pc = "enum"
    /\ stage = 1
    /\ forgeCalls' = Append(forgeCalls, << "self", AuthLogin >>)
    /\ \E ok \in BOOLEAN :
          IF ok THEN /\ repos' = ForgeSelfRepos
                     /\ pc' = "view"
          ELSE /\ repos' = repos
               /\ pc' = "enum_error"
    /\ UNCHANGED << cfg, users, stage, enumIdx, operation, next, tasks, permits,
                    fs, dirsMade, viewed, passLog >>

\* One iteration of the `for` of get_all_*: a Forge Client call for one
\* owner; after the last one the flattened list is returned.
ForgeFetch(kind, name) ==
    CASE kind = "user" -> ForgeUserRepos(name)
      [] kind = "org" -> ForgeOrgRepos(name)
      [] kind = "gist" -> ForgeGists(name)

\* A loop that returns from inside its body, after the first owner.
GetAllStep_lazy(owners, kind) ==
    /\ pc = "enum"
    /\ IF enumIdx <= Len(owners) /\ enumIdx = 1
       THEN LET name == Strip(owners[enumIdx]) IN
            /\ forgeCalls' = Append(forgeCalls, << kind, name >>)
            /\ \E ok \in BOOLEAN :
                  IF ok THEN /\ repos' = repos \o ForgeFetch(kind, name)
                             /\ enumIdx' = enumIdx + 1
                             /\ pc' = pc
                  ELSE /\ repos' = repos
                       /\ enumIdx' = enumIdx
                       /\ pc' = "enum_error"
       ELSE /\ pc' = "view"
            /\ UNCHANGED << forgeCalls, repos, enumIdx >>
    /\ UNCHANGED << cfg, users, stage, operation, next, tasks, permits, fs,
                    dirsMade, viewed, passLog >>

\* A loop that catches the Forge Client's error and goes on to the next owner.
GetAllStep_skip(owners, kind) ==
    /\ pc = "enum"
    /\ IF enumIdx <= Len(owners)
       THEN LET name == Strip(owners[enumIdx]) IN
            /\ forgeCalls' = Append(forgeCalls, << kind, name >>)
            /\ \E ok \in BOOLEAN :
                  /\ repos' = IF ok THEN repos \o ForgeFetch(kind, name) ELSE repos
                  /\ enumIdx' = enumIdx + 1
                  /\ pc' = pc
       ELSE /\ pc' = "view"
            /\ UNCHANGED << forgeCalls, repos, enumIdx >>
    /\ UNCHANGED << cfg, users, stage, operation, next, tasks, permits, fs,
                    dirsMade, viewed, passLog >>

GetAllStep(owners, kind) ==
    /\ pc = "enum"
    /\ IF enumIdx <= Len(owners)
       THEN LET name == Strip(owners[enumIdx]) IN
            /\ forgeCalls' = Append(forgeCalls, << kind, name >>)
            /\ \E ok \in BOOLEAN :
                  IF ok THEN /\ repos' = repos \o ForgeFetch(kind, name)
                             /\ enumIdx' = enumIdx + 1
                             /\ pc' = pc
                  ELSE /\ repos' = repos
                       /\ enumIdx' = enumIdx
                       /\ pc' = "enum_error"
       ELSE /\ pc' = "view"
            /\ UNCHANGED << forgeCalls, repos, enumIdx >>
    /\ UNCHANGED << cfg, users, stage, operation, next, tasks, permits, fs,
                    dirsMade, viewed, passLog >>

get_all_user_repos == stage = 2 /\ GetAllStep(users, "user")
get_all_org_repos == stage = 3 /\ GetAllStep(cfg.orgs, "org")
get_all_gists == stage = 4 /\ GetAllStep(cfg.gists, "gist")

\* `if self.view:` view_repos / view_gists
view_repos ==
    /\ pc = "view"
    /\ viewed' = IF cfg.view THEN repos ELSE viewed
    /\ pc' = "clone"
    /\ UNCHANGED << cfg, users, stage, enumIdx, repos, operation, next, tasks,
                    permits, fs, dirsMade, forgeCalls, passLog >>

\* Where run() goes after the `if self.pull:` of a class.
AfterClass ==
    IF stage = 1 THEN << "remove", stage >>
    ELSE IF stage < 4 THEN << "guard", stage + 1 >>
    ELSE << "finished", stage >>

\* `if self.clone:` / `if self.pull:` and the first lines of iterate_*: a
\* fresh BoundedSemaphore(self.threads) and an empty thread_list.
RunPass(at, flag, op, skipTo) ==
    /\ pc = at
    /\ IF flag
       THEN /\ pc' = "iterate"
            /\ operation' = op
            /\ next' = 1
            /\ tasks' = << >>
            /\ permits' = cfg.threads
            /\ passLog' = Append(passLog, << stage, op, 0 >>)
            /\ UNCHANGED stage
       ELSE /\ pc' = skipTo[1]
            /\ stage' = skipTo[2]
            /\ UNCHANGED << operation, next, tasks, permits, passLog >>
    /\ UNCHANGED << cfg, users, enumIdx, repos, fs, dirsMade, forgeCalls, viewed >>

run_clone == RunPass("clone", cfg.clone, CLONE_OPERATION, << "pull", stage >>)
run_pull == RunPass("pull", cfg.pull, PULL_OPERATION, AfterClass)

\* An owner filter that forgets the context.
OwnerFiltered_anycontext(d) ==
    /\ d.kind = "repo"
    /\ cfg.token
    /\ Lower(d.owner) # authenticated_username

\* The owner-filter test of iterate_repos_to_archive (iterate_gists_to_archive
\* has none).
OwnerFiltered(d) ==
    /\ d.kind = "repo"
    /\ cfg.token
    /\ Lower(d.owner) # authenticated_username
    /\ context = PERSONAL_CONTEXT

NewTask(d) == [ target |-> d, path |-> PathOf(d), op |-> operation,
                pc |-> "check", outcome |-> "none", runs |-> 0, raised |-> FALSE ]

\* One iteration of the `for` of iterate_*: `continue`, or a Thread is
\* created, appended to thread_list and started.
iterate_start ==
    /\ pc = "iterate"
    /\ IF next <= Len(repos)
       THEN /\ IF OwnerFiltered(repos[next])
               THEN UNCHANGED << tasks, passLog >>
               ELSE /\ tasks' = Append(tasks, NewTask(repos[next]))
                    /\ passLog' = [passLog EXCEPT ![Len(passLog)][3] = @ + 1]
            /\ next' = next + 1
            /\ pc' = pc
       ELSE /\ pc' = "join"
            /\ UNCHANGED << tasks, next, passLog >>
    /\ UNCHANGED << cfg, users, stage, enumIdx, repos, operation, permits, fs,
                    dirsMade, forgeCalls, viewed >>

\* A join that waits for the first thread only.
JoinReady_first == tasks = << >> \/ tasks[1].pc = "done"

\* `for thread in thread_list: thread.join()`: returns once every thread has
\* ended.
JoinReady == \A i \in 1..Len(tasks) : tasks[i].pc = "done"

\* A pass that starts its threads and returns without joining them.
iterate_join_nowait ==
    /\ pc = "join"
    /\ IF operation = CLONE_OPERATION
       THEN /\ pc' = "pull"
            /\ UNCHANGED stage
       ELSE /\ pc' = AfterClass[1]
            /\ stage' = AfterClass[2]
    /\ UNCHANGED << cfg, users, enumIdx, repos, operation, next, tasks, permits,
                    fs, dirsMade, forgeCalls, viewed, passLog >>

iterate_join ==
    /\ pc = "join"
    /\ JoinReady
    /\ IF operation = CLONE_OPERATION
       THEN /\ pc' = "pull"
            /\ UNCHANGED stage
       ELSE /\ pc' = AfterClass[1]
            /\ stage' = AfterClass[2]
    /\ UNCHANGED << cfg, users, enumIdx, repos, operation, next, tasks, permits,
                    fs, dirsMade, forgeCalls, viewed, passLog >>

\* list.remove(x): the first occurrence is removed; ValueError if there is none.
RECURSIVE ListRemove(_, _)
ListRemove(l, x) ==
    IF l = << >> THEN << >>
    ELSE IF Head(l) = x THEN Tail(l)
    ELSE << Head(l) >> \o ListRemove(Tail(l), x)

InList(l, x) == \E i \in 1..Len(l) : l[i] = x

\* self.users.remove(self.authenticated_username)
run_remove ==
    /\ pc = "remove"
    /\ IF InList(users, authenticated_username)
       THEN /\ users' = ListRemove(users, authenticated_username)
            /\ pc' = "guard"
            /\ stage' = 2
       ELSE /\ pc' = "value_error"
            /\ UNCHANGED << users, stage >>
    /\ UNCHANGED << cfg, enumIdx, repos, operation, next, tasks, permits, fs,
                    dirsMade, forgeCalls, viewed, passLog >>

\* --------------------------------------------- archive_repo / archive_gist
\* The body of one thread.  archive_repo and archive_gist differ only in the
\* command string and the log text, so one set of actions models both.
Holding(t) == t.pc \in {"running", "except", "rmtree", "finally"}

\* A check that never skips.
archive_check_noskip(i) ==
    /\ tasks[i].pc = "check"
    /\ tasks' = [tasks EXCEPT ![i].pc = "acquire"]
    /\ UNCHANGED << cfg, permits, fs >>
    /\ UNCHANGED mainVars

\* `if os.path.exists(path) and operation == CLONE_OPERATION: pass`
archive_check(i) ==
    /\ tasks[i].pc = "check"
    /\ tasks' = IF tasks[i].path \in fs /\ tasks[i].op = CLONE_OPERATION
                THEN [tasks EXCEPT ![i].pc = "done", ![i].outcome = "skipped"]
                ELSE [tasks EXCEPT ![i].pc = "acquire"]
    /\ UNCHANGED << cfg, permits, fs >>
    /\ UNCHANGED mainVars

\* An acquire that does not block.
archive_acquire_nowait(i) ==
    /\ tasks[i].pc = "acquire"
    /\ permits' = permits - 1
    /\ tasks' = [tasks EXCEPT ![i].pc = "running"]
    /\ UNCHANGED << cfg, fs >>
    /\ UNCHANGED mainVars

\* thread_limiter.acquire(): blocks while the value is 0.
archive_acquire(i) ==
    /\ tasks[i].pc = "acquire"
    /\ permits > 0
    /\ permits' = permits - 1
    /\ tasks' = [tasks EXCEPT ![i].pc = "running"]
    /\ UNCHANGED << cfg, fs >>
    /\ UNCHANGED mainVars

\* What the git command can do, read when the child process ends:
\*   clone into a path that is there: git refuses, or the deadline passes;
\*   clone into a free path: success creates it, a failure or a timeout may
\*     leave a partial directory behind;
\*   pull in a path that is not there: `cd` fails, a non-zero exit;
\*   pull in a path that is there: any outcome, the directory stays.
GitResults(t) ==
    IF t.op = CLONE_OPERATION
    THEN IF t.path \in fs
         THEN { << "failed", fs >>, << "timeout", fs >> }
         ELSE { << "success", fs \cup {t.path} >>,
                << "failed", fs >>, << "failed", fs \cup {t.path} >>,
                << "timeout", fs >>, << "timeout", fs \cup {t.path} >> }
    ELSE IF t.path \in fs
         THEN { << "success", fs >>, << "failed", fs >>, << "timeout", fs >> }
         ELSE { << "failed", fs >> }

\* A git step whose failure cancels the siblings that have not run yet.
archive_git_cancel(i) ==
    /\ tasks[i].pc = "running"
    /\ \E r \in GitResults(tasks[i]) :
          /\ fs' = r[2]
          /\ tasks' = [ j \in 1..Len(tasks) |->
                          IF j = i
                          THEN [tasks[j] EXCEPT !.outcome = r[1], !.runs = @ + 1,
                                                !.pc = IF r[1] = "success" THEN "finally" ELSE "except"]
                          ELSE IF r[1] # "success" /\ tasks[j].pc \in {"check", "acquire"}
                          THEN [tasks[j] EXCEPT !.pc = "done", !.outcome = "cancelled"]
                          ELSE tasks[j] ]
    /\ UNCHANGED << cfg, permits >>
    /\ UNCHANGED mainVars

\* subprocess.run(git_command, shell=True, check=True, timeout=self.timeout)
archive_git(i) ==
    /\ tasks[i].pc = "running"
    /\ \E r \in GitResults(tasks[i]) :
          /\ fs' = r[2]
          /\ tasks' = [tasks EXCEPT ![i].outcome = r[1],
                                    ![i].runs = @ + 1,
                                    ![i].pc = IF r[1] = "success" THEN "finally" ELSE "except"]
    /\ UNCHANGED << cfg, permits >>
    /\ UNCHANGED mainVars

\* An except clause that runs the git command a second time.
archive_except_retry(i) ==
    /\ tasks[i].pc = "except"
    /\ tasks' = [tasks EXCEPT ![i].pc = IF tasks[i].runs < 2 THEN "running"
                                        ELSE IF tasks[i].path \in fs THEN "rmtree" ELSE "finally"]
    /\ UNCHANGED << cfg, permits, fs >>
    /\ UNCHANGED mainVars

\* An except clause that calls rmtree without testing that the path exists.
archive_except_rmtree(i) ==
    /\ tasks[i].pc = "except"
    /\ tasks' = [tasks EXCEPT ![i].pc = "rmtree"]
    /\ UNCHANGED << cfg, permits, fs >>
    /\ UNCHANGED mainVars

\* except TimeoutExpired / CalledProcessError: `if os.path.exists(path):`
archive_except(i) ==
    /\ tasks[i].pc = "except"
    /\ tasks' = [tasks EXCEPT ![i].pc = IF tasks[i].path \in fs THEN "rmtree" ELSE "finally"]
    /\ UNCHANGED << cfg, permits, fs >>
    /\ UNCHANGED mainVars

\* shutil.rmtree(path); it raises if a sibling removed the path in between,
\* and the exception leaves through the finally clause.
archive_rmtree(i) ==
    /\ tasks[i].pc = "rmtree"
    /\ fs' = fs \ {tasks[i].path}
    /\ tasks' = [tasks EXCEPT ![i].pc = "finally",
                              ![i].raised = tasks[i].path \notin fs]
    /\ UNCHANGED << cfg, permits >>
    /\ UNCHANGED mainVars

\* A release placed after the success log instead of in a finally clause.
archive_release_leak(i) ==
    /\ tasks[i].pc = "finally"
    /\ permits' = IF tasks[i].outcome = "success" THEN permits + 1 ELSE permits
    /\ tasks' = [tasks EXCEPT ![i].pc = "done"]
    /\ UNCHANGED << cfg, fs >>
    /\ UNCHANGED mainVars

\* finally: thread_limiter.release(), and the thread ends.
archive_release(i) ==
    /\ tasks[i].pc = "finally"
    /\ permits' = permits + 1
    /\ tasks' = [tasks EXCEPT ![i].pc = "done"]
    /\ UNCHANGED << cfg, fs >>
    /\ UNCHANGED mainVars

\* ------------------------------------------------------------------- Next
Next ==
    \/ initialize_project
    \/ run_guard
    \/ get_personal_repos
    \/ get_all_user_repos
    \/ get_all_org_repos
    \/ get_all_gists
    \/ view_repos
    \/ run_clone
    \/ run_pull
    \/ iterate_start
    \/ iterate_join
    \/ run_remove
    \/ \E i \in 1..Len(tasks) : archive_check(i)
    \/ \E i \in 1..Len(tasks) : archive_acquire(i)
    \/ \E i \in 1..Len(tasks) : archive_git(i)
    \/ \E i \in 1..Len(tasks) : archive_except(i)
    \/ \E i \in 1..Len(tasks) : archive_rmtree(i)
    \/ \E i \in 1..Len(tasks) : archive_release(i)

Spec == Init /\ [][Next]_vars

\* ------------------------------------------------------------- properties
TaskIds == 1..Len(tasks)
InPass == pc \in {"iterate", "join"}
SemaphoreMade == operation # "none"
Running == { i \in TaskIds : Holding(tasks[i]) }
Outcomes == { tasks[i].outcome : i \in TaskIds }

\* C1: the number of tasks between acquire and release never exceeds
\* self.threads, however many tasks have been started.
C1_BoundedExecution == Cardinality(Running) <= cfg.threads

\* C1 witness: more tasks started than permits, all permits taken, a task
\* waiting at acquire.
C1_Witness ==
    /\ Len(tasks) > cfg.threads
    /\ Cardinality(Running) = cfg.threads
    /\ \E i \in TaskIds : tasks[i].pc = "acquire"

\* C2: the permit count stays within 0..self.threads, it is self.threads
\* minus the tasks that acquired and have not released yet, and it is
\* self.threads again once the pass has returned.
C2_PermitsPaired ==
    /\ permits \in 0..cfg.threads
    /\ SemaphoreMade => permits = cfg.threads - Cardinality(Running)
    /\ SemaphoreMade /\ ~InPass => permits = cfg.threads

\* C2 witness: a pass has returned after a timeout and a git failure.
C2_Witness ==
    /\ SemaphoreMade /\ ~InPass
    /\ {"timeout", "failed"} \subseteq Outcomes
    /\ permits = cfg.threads

\* C3: outside the loop and the join of a pass, every thread the pass
\* started has ended.
C3_BarrierJoin == ~InPass => \A i \in TaskIds : tasks[i].pc = "done"

\* C3 witness: a pass of two threads has just returned.
C3_Witness ==
    /\ pc = "pull"
    /\ operation = CLONE_OPERATION
    /\ Len(tasks) = 2
    /\ \A i \in TaskIds : tasks[i].runs = 1

\* C4 (as claimed): when a thread whose git command failed or timed out
\* returns, its local path does not exist.
C4_RollbackOnReturn ==
    [][ \A i \in TaskIds :
          ( /\ i <= Len(tasks')
            /\ tasks[i].pc = "finally"
            /\ tasks'[i].pc = "done"
            /\ tasks[i].outcome \in {"failed", "timeout"} )
          => tasks[i].path \notin fs' ]_vars

\* C5: a Clone thread that finds its path in place ends at once: no git
\* subprocess, no permit, the filesystem as it was; and a skipped thread has
\* run nothing.
C5_CloneIdempotent ==
    /\ [][ \A i \in TaskIds :
             ( /\ i <= Len(tasks')
               /\ tasks[i].pc = "check"
               /\ tasks'[i].pc # "check"
               /\ tasks[i].op = CLONE_OPERATION
               /\ tasks[i].path \in fs )
             => /\ tasks'[i].pc = "done"
                /\ tasks'[i].outcome = "skipped"
                /\ tasks'[i].runs = 0
                /\ fs' = fs
                /\ permits' = permits ]_vars
    /\ [](\A i \in TaskIds : tasks[i].outcome = "skipped" => tasks[i].runs = 0 /\ tasks[i].pc = "done")

\* C5 witness: a Clone thread skipped while a sibling is running git.
C5_Witness ==
    \E i, j \in TaskIds :
        /\ tasks[i].outcome = "skipped"
        /\ tasks[i].op = CLONE_OPERATION
        /\ tasks[j].pc = "running"

\* A step of thread i on its failure path: the git exit that fails, the
\* except clause, the rmtree, the release.
FailureStep(i) ==
    /\ i <= Len(tasks')
    /\ tasks'[i] # tasks[i]
    /\ tasks'[i].outcome \in {"failed", "timeout"}

\* Where run() stands when the current pass returns.
PassSuccessor == IF operation = CLONE_OPERATION THEN << "pull", stage >> ELSE AfterClass

\* C6: a failure or timeout of one thread leaves every sibling's thread and
\* the main thread as they were and takes no permit away; a thread waiting
\* for a permit always has a permit free or a holder about to release one;
\* and the join returns with every started thread ended, each one that was
\* not skipped having run its git command once, and run() goes on to the
\* next pass as after a pass without failures.
C6_FailureIsolated ==
    /\ [][ \A i \in TaskIds :
             FailureStep(i)
             => /\ \A j \in TaskIds \ {i} : j <= Len(tasks') /\ tasks'[j] = tasks[j]
                /\ UNCHANGED mainVars
                /\ permits' >= permits ]_vars
    /\ [](\A i \in TaskIds : tasks[i].pc = "acquire" => permits > 0 \/ Running # {})
    /\ [][ (pc = "join" /\ pc' # "join")
           => /\ \A i \in TaskIds :
                    /\ tasks[i].pc = "done"
                    /\ tasks[i].outcome # "skipped" => tasks[i].runs = 1
              /\ << pc', stage' >> = PassSuccessor ]_vars

\* C6 witness: the run has reported completion after a pass in which one
\* thread failed or timed out and a sibling succeeded.
C6_Witness ==
    /\ pc = "finished"
    /\ \E i, j \in TaskIds :
          /\ tasks[i].outcome \in {"failed", "timeout"}
          /\ tasks[j].outcome = "success"

Started == [ i \in TaskIds |-> tasks[i].target ]
Seen == SubSeq(repos, 1, next - 1)
OwnedByAuth(d) == d.owner = AuthLogin

\* C7: in the personal context (which needs a token) the threads started are
\* exactly those of the descriptors owned by the authenticated login; in the
\* user, org and gist contexts a thread is started for every descriptor.
C7_OwnerFilter ==
    InPass =>
        /\ context = PERSONAL_CONTEXT => cfg.token
        /\ Started = IF context = PERSONAL_CONTEXT THEN SelectSeq(Seen, OwnedByAuth) ELSE Seen

\* C7 witness: self repos [Alice/r1, orgx/r2] gave exactly the thread of
\* Alice/r1.
C7_Witness ==
    /\ pc = "join"
    /\ context = PERSONAL_CONTEXT
    /\ repos = << Repo("Alice", "r1"), Repo("orgx", "r2") >>
    /\ Started = << Repo("Alice", "r1") >>

FetchesAuthRepos(c) == c[1] = "self" \/ (c[1] = "user" /\ c[2] = authenticated_username)
IsUserCall(c) == c[1] = "user"
UserCallNames == SelectSeq(forgeCalls, IsUserCall)

\* C8 (as claimed): with a token and the authenticated login in the
\* configured users list, the user pass asks the forge for the users that
\* remain after the removal only, and the authenticated user's repos are
\* fetched at most once in the run.
C8_UserDedup ==
    (cfg.token /\ InList(cfg.users, authenticated_username))
    => /\ \A k \in 1..Len(UserCallNames) : UserCallNames[k][2] = Strip(users[k])
       /\ Len(SelectSeq(forgeCalls, FetchesAuthRepos)) <= 1

CfgHasTargets == cfg.users # << >> \/ cfg.orgs # << >> \/ cfg.gists # << >>

\* C9: initialize_project raises exactly when one of "some list is
\* non-empty" and "some operation flag is set" holds without the other.
C9_ConfigValidation ==
    pc # "init" => (pc = "config_error" <=> (CfgHasTargets # HasOperation))

\* C9 witness: an operation without any list was refused.
C9_Witness == pc = "config_error" /\ HasOperation /\ ~CfgHasTargets

\* C10 (as claimed): when the configuration error is raised no Forge Client
\* call has been made and no directory has been created.
C10_NoActivityBeforeError ==
    pc = "config_error" => forgeCalls = << >> /\ ~dirsMade

IsEnumerationCall(c) == c[1] # "auth"

\* C10 (amended): an inconsistent configuration aborts the run before any
\* enumeration call, thread or git subprocess; by then the constructor has
\* looked up the authenticated user when a token is set, and
\* initialize_project has created the directories of a missing location.
C10_AbortBeforeEnumeration ==
    (pc # "init" /\ CfgHasTargets # HasOperation)
    => /\ pc = "config_error"
       /\ SelectSeq(forgeCalls, IsEnumerationCall) = << >>
       /\ tasks = << >> /\ ~SemaphoreMade
       /\ dirsMade = ~cfg.locExists
       /\ Len(forgeCalls) = IF cfg.token THEN 1 ELSE 0

\* C10 witness: the error was raised after the directories were created and
\* the authenticated user looked up.
C10_Witness == pc = "config_error" /\ dirsMade /\ forgeCalls # << >>

OpRank(op) == IF op = CLONE_OPERATION THEN 1 ELSE 2
PassBefore(a, b) == a[1] < b[1] \/ (a[1] = b[1] /\ OpRank(a[2]) < OpRank(b[2]))
AllEnded == \A i \in TaskIds : tasks[i].pc = "done"

\* C11: the passes of a run follow one another in the order personal,
\* users, orgs, gists and, within a class, Clone before Pull; the threads
\* that have not ended all belong to the pass in progress and carry its
\* operation; a pass begins, and completion is reported, only when every
\* thread of the passes before has ended.
C11_PassOrdering ==
    /\ [](\A k \in 1..(Len(passLog) - 1) : PassBefore(passLog[k], passLog[k + 1]))
    /\ [](\A i \in TaskIds :
             tasks[i].pc # "done"
             => /\ InPass
                /\ tasks[i].op = operation
                /\ passLog[Len(passLog)] [2] = operation
                /\ passLog[Len(passLog)] [1] = stage)
    /\ [][ Len(passLog') > Len(passLog) => AllEnded ]_vars
    /\ [](pc = "finished" => AllEnded)

\* C11 witness: all eight passes were run, in order, and completion was
\* reported.
C11_Witness ==
    /\ pc = "finished"
    /\ Len(passLog) = 8
    /\ passLog[1] [1] = 1 /\ passLog[1] [2] = CLONE_OPERATION
    /\ passLog[8] [1] = 4 /\ passLog[8] [2] = PULL_OPERATION

NoThreadYet == \A k \in 1..Len(passLog) : passLog[k] [3] = 0

\* C12 (as claimed): every enumeration call of the run is made before the
\* first archiving thread of the run is started.
C12_EnumerationFirst == [][ forgeCalls' # forgeCalls => NoThreadYet ]_vars

\* The configured list run() enumerates for a class.
Owners(s) ==
    CASE s = 2 -> users
      [] s = 3 -> cfg.orgs
      [] s = 4 -> cfg.gists
      [] OTHER -> << >>

\* C12 (amended): enumeration calls are made by the main thread, one after
\* another, while no archiving thread is alive, and the enumeration of a
\* class is complete before the first thread of that class is started; the
\* enumeration of a later class follows the archiving of the earlier ones.
C12_EnumerationPerClass ==
    /\ [][ forgeCalls' # forgeCalls
           => /\ pc = "enum"
              /\ AllEnded
              /\ Len(forgeCalls') = Len(forgeCalls) + 1 ]_vars
    /\ [](InPass => stage = 1 \/ enumIdx = Len(Owners(stage)) + 1)
    /\ [](InPass /\ stage = 1 => forgeCalls[Len(forgeCalls)] [1] = "self")

\* C12 witness: the users are being enumerated after threads of the
\* personal class have run.
C12_Witness ==
    /\ pc = "enum"
    /\ stage = 2
    /\ enumIdx = 2
    /\ ~NoThreadYet

ClassKind(s) ==
    CASE s = 1 -> "self"
      [] s = 2 -> "user"
      [] s = 3 -> "org"
      [] s = 4 -> "gist"

RECURSIVE FetchAll(_, _)
FetchAll(owners, kind) ==
    IF owners = << >> THEN << >>
    ELSE ForgeFetch(kind, Strip(Head(owners))) \o FetchAll(Tail(owners), kind)

\* What the forge holds for a class.
ExpectedRepos(s) == IF s = 1 THEN ForgeSelfRepos ELSE FetchAll(Owners(s), ClassKind(s))

IsClassCall(c) == c[1] = ClassKind(stage)

\* C13: a failed Forge Client call ends the run there: nothing happens
\* after it (no further owner is asked for, no thread is started,
\* completion is not reported), the failed call is the last one made, and
\* the owners after the failing one were never asked for; a class is only
\* archived with the result of every one of its owners (none skipped).
C13_AllOrNothing ==
    /\ [][ pc # "enum_error" ]_vars
    /\ [](pc = "enum_error"
          => /\ AllEnded
             /\ forgeCalls[Len(forgeCalls)] [1] = ClassKind(stage)
             /\ stage >= 2 => /\ enumIdx <= Len(Owners(stage))
                              /\ Len(SelectSeq(forgeCalls, IsClassCall)) = enumIdx
                              /\ forgeCalls[Len(forgeCalls)] [2] = Strip(Owners(stage)[enumIdx]))
    /\ [](pc \in {"view", "clone", "pull", "iterate", "join"} => repos = ExpectedRepos(stage))

\* C13 witness: the call for the first of two users failed; the second was
\* never asked for.
C13_Witness ==
    /\ pc = "enum_error"
    /\ stage = 2
    /\ enumIdx = 1
    /\ Len(users) = 2
    /\ Len(SelectSeq(forgeCalls, IsClassCall)) = 1

\* C14 (as claimed): every thread that has ended made exactly one attempt
\* of its git command.
C14_ExactlyOneAttempt == \A i \in TaskIds : tasks[i].pc = "done" => tasks[i].runs = 1

\* C14 (amended): one thread per submitted target, and each thread runs its
\* git command at most once: not at all when the Clone test skips it, once
\* otherwise, and never again after a timeout or a non-zero exit.
C14_AtMostOneAttempt ==
    /\ Len(tasks) <= next - 1
    /\ \A i \in TaskIds :
          /\ tasks[i].runs <= 1
          /\ tasks[i].pc \in {"check", "acquire", "running"} => tasks[i].runs = 0
          /\ tasks[i].pc \in {"except", "rmtree", "finally"} => tasks[i].runs = 1
          /\ tasks[i].pc = "done" => tasks[i].runs = IF tasks[i].outcome = "skipped" THEN 0 ELSE 1

\* C14 witness: a pass has returned with a thread that failed after one
\* attempt and a thread that was skipped.
C14_Witness ==
    /\ ~InPass
    /\ \E i, j \in TaskIds :
          /\ tasks[i].outcome \in {"failed", "timeout"} /\ tasks[i].runs = 1
          /\ tasks[j].outcome = "skipped" /\ tasks[j].runs = 0

SeqRange(q) == { q[k] : k \in 1..Len(q) }

\* C15 (as claimed): for the personal, users and orgs classes the repos
\* view_repos logged are the repos a thread is started for.
C15_ViewMatchesArchive ==
    (pc = "join" /\ cfg.view /\ stage \in 1..3) => SeqRange(viewed) = SeqRange(Started)

\* A step of thread i that leaves the position `at`.
Leaves(i, at) == i <= Len(tasks') /\ tasks[i].pc = at /\ tasks'[i].pc # at

\* C16: a Pull thread goes to acquire whatever the filesystem holds; when
\* its path is missing the git command ends with a non-zero exit and
\* creates nothing, the except clause finds nothing to delete and raises
\* nothing, the finally clause returns the permit and the thread ends; no
\* step of a Pull pass creates a path.
C16_PullMissingPath ==
    /\ [][ \A i \in TaskIds :
             (tasks[i].op = PULL_OPERATION /\ Leaves(i, "check"))
             => tasks'[i].pc = "acquire" /\ fs' = fs ]_vars
    /\ [][ \A i \in TaskIds :
             (tasks[i].op = PULL_OPERATION /\ Leaves(i, "running") /\ tasks[i].path \notin fs)
             => /\ tasks'[i].outcome = "failed"
                /\ tasks'[i].pc = "except"
                /\ tasks'[i].runs = 1
                /\ fs' = fs ]_vars
    /\ [][ \A i \in TaskIds :
             (tasks[i].op = PULL_OPERATION /\ Leaves(i, "except") /\ tasks[i].path \notin fs)
             => /\ tasks'[i].pc = "finally"
                /\ ~tasks'[i].raised
                /\ fs' = fs ]_vars
    /\ [][ \A i \in TaskIds :
             (tasks[i].op = PULL_OPERATION /\ Leaves(i, "finally"))
             => /\ tasks'[i].pc = "done"
                /\ permits' = permits + 1
                /\ fs' = fs ]_vars
    /\ [][ operation = PULL_OPERATION => fs' \subseteq fs ]_vars
    /\ [](\A i \in TaskIds :
             tasks[i].pc \in {"check", "acquire", "running", "except"} => ~tasks[i].raised)

\* C16 witness: under a location that did not exist, without a Clone pass,
\* a Pull thread has ended after a failed git command, and the permits are
\* all back.
C16_Witness ==
    /\ ~cfg.locExists /\ ~cfg.clone
    /\ permits = cfg.threads
    /\ \E i \in TaskIds :
          /\ tasks[i].op = PULL_OPERATION
          /\ tasks[i].pc = "done"
          /\ tasks[i].outcome = "failed"
          /\ tasks[i].runs = 1
          /\ ~tasks[i].raised
          /\ tasks[i].path \notin fs

IsSelfCall(c) == c[1] = "self"
NamesAuth(u) == Strip(u) = authenticated_username

\* C17 (as claimed): with a token and a non-empty users list that does not
\* name the authenticated login, no personal repos are fetched or
\* archived, self.users stays as configured and the run does not abort at
\* the removal.
C17_PersonalOnlyWhenListed ==
    (cfg.token /\ cfg.users # << >> /\ SelectSeq(cfg.users, NamesAuth) = << >>)
    => /\ SelectSeq(forgeCalls, IsSelfCall) = << >>
       /\ \A k \in 1..Len(passLog) : passLog[k] [1] # 1
       /\ users = cfg.users
       /\ pc # "value_error"

\* C18 (as claimed): when a Clone pass has returned, the path of every
\* thread whose git clone succeeded exists.
C18_CloneSurvives ==
    (pc = "pull" /\ operation = CLONE_OPERATION)
    => \A i \in TaskIds : tasks[i].outcome = "success" => tasks[i].path \in fs

\* C19 (as claimed): with a consistent configuration and a forge that
\* answers, the run never stops short of reporting completion: whenever it
\* has not finished, some thread or the main thread can take a step.
C19_RunCompletes ==
    pc \notin {"config_error", "enum_error"} => (pc = "finished" \/ ENABLED Next)

\* The threads and the main thread are scheduled by the operating system:
\* a step that stays possible is eventually taken.
FairSpec == Spec /\ WF_vars(Next)

\* Under that scheduling every run ends: it reports completion or it
\* aborts with one of the three errors.
RunEnds == <>(pc \in {"finished", "config_error", "enum_error", "value_error"})

====
